---- MODULE Spec2Model ----
(***************************************************************************)
(* Model of the HelpHUB ticket store (database_manager.py): the            *)
(* DatabaseManager object, its two backends (the remote "tickets" table    *)
(* and the in-process list mock_tickets) and its lifecycle operations,     *)
(* with the handlers that call them: the dashboard's views and update      *)
(* action (dashboard.py) and the bot's callback handler (helphub1.py).     *)
(*                                                                         *)
(* Specifications.                                                         *)
(*   - Spec: one caller of the store's operations.                         *)
(*   - SpecHandlers: the dashboard's update action and the bot's callback  *)
(*     handler on one store, one handler at a time.                        *)
(*   - SpecConcurrent: a caller of update_ticket_status and a caller of    *)
(*     assign_ticket whose three steps interleave with the first.          *)
(*                                                                         *)
(* Representation.                                                         *)
(*   - A ticket is the dict the code builds, as a record.  A key the dict  *)
(*     does not hold (resolution, assigned_to) has the value NONE, which   *)
(*     is also what dict.get(key) gives for it.                            *)
(*   - The id f"TK-{n}" is the pair <<"TK", n>>.                           *)
(*   - Time is counted in ticks, TicksPerSec ticks to the second.          *)
(*     created_at is datetime.isoformat() of a tick; ISO strings of one    *)
(*     width order as the instants they denote, so created_at is kept as   *)
(*     the tick and compared as an integer.  The clock never runs          *)
(*     backwards.                                                          *)
(*   - A call on the remote client has an outcome: "ok", or "raise" when   *)
(*     the call throws or returns no rows although rows were expected;     *)
(*     both leave the table as it was and make the operation return its    *)
(*     failure value.                                                      *)
(*   - inflight is the assign_ticket call of a second caller that runs     *)
(*     step by step, with the values it has read so far.                   *)
(***************************************************************************)
EXTENDS Integers, Sequences, FiniteSets, TLC

VARIABLES SUPABASE_AVAILABLE, has_supabase, mock_tickets, remote_tickets,
          clock, last, nops, inflight

vars == <<SUPABASE_AVAILABLE, has_supabase, mock_tickets, remote_tickets,
          clock, last, nops, inflight>>

----------------------------------------------------------------------------
(* Bounds of the model *)

MaxOps == 2
MaxTicks == 2
MaxLimit == 2
TicksPerSec == 2
StartDay == 40

(* Program constants *)

NumMockTickets == 30
MaxDaysAgo == 30
FirstMockId == 1000
MinUserId == 100
MaxUserId == 999
SecondsPerDay == 86400
DefaultLimit == 100
StatsLimit == 10000
SearchLimit == 50
FilterLimit == 200

TicksPerDay == SecondsPerDay * TicksPerSec
StartClock == StartDay * TicksPerDay

NONE == "<None>"
NoId == <<"", 0>>
UnknownId == <<"TK", 7>>

(* the value None where a ticket dict is expected *)
NoTicket ==
  [id |-> NoId, user_id |-> 0, username |-> NONE, issue |-> NONE,
   summary |-> NONE, category |-> NONE, priority |-> NONE,
   sentiment |-> NONE, status |-> NONE, created_at |-> 0,
   resolution |-> NONE, assigned_to |-> NONE]

NoArgs ==
  [user_id |-> 0, username |-> NONE, issue |-> NONE, summary |-> NONE,
   category |-> NONE, priority |-> NONE, sentiment |-> NONE]

Truthy(x) == x # NONE /\ x # ""

categories == <<"Technical Issue", "Billing", "Feature Request", "Account", "General">>
priorities == <<"High", "Medium", "Low">>
sentiments == <<"Positive", "Neutral", "Negative">>
statuses == <<"open", "resolved", "forwarded">>
usernames == <<"user123", "customer456", "client789", "member101", "guest202">>

(* random.choice(seq) for the k-th draw *)
Choice(seq, k) == seq[(k % Len(seq)) + 1]

TicketId(n) == <<"TK", n>>

----------------------------------------------------------------------------
(* Inputs *)

ArgTuples ==
  { [user_id |-> 501, username |-> "alice", issue |-> "Refund please",
     summary |-> "wants a refund", category |-> "Billing",
     priority |-> "High", sentiment |-> "Negative"],
    [user_id |-> 502, username |-> "bob", issue |-> "App crashes",
     summary |-> "crash on start", category |-> "Technical Issue",
     priority |-> "Low", sentiment |-> "Neutral"] }

StatusInputs == {"open", "resolved", "total", "closed"}
ResolutionInputs == {NONE, "", "note", "other note"}
AssigneeInputs == {"agent_bob"}
Outcomes == {"ok", "raise"}
Delays == {0, 1}
RandomSeeds == {0, 1}
StatusFilters == {NONE, "", "open", "resolved", "closed"}
Limits == (-1) .. MaxLimit
DaysInputs == {0, 1, 7}
SearchTerms == {"", "sample", "Refund", "tk-1000", "nothing"}
DashboardFilters == {"all", "All", "open", "resolved", "forwarded"}
RadioStatuses == {"open", "resolved", "forwarded"}
AssignedToInputs == {"", "agent_bob"}
CurrentFilters == {"all", "open"}
CurrentSearches == {""}
NoteInputs == {"", "note"}
NotifierOutcomes == {"ok", "refused", "timeout"}
CallbackActions == {"resolve", "forward", "status"}

----------------------------------------------------------------------------
(* _generate_mock_data: the 30 synthetic tickets.  The random draws are a  *)
(* function of the ticket's index i and of the run's seed r.               *)

MockTicket(i, r, now) ==
  [id |-> TicketId(FirstMockId + i),
   user_id |-> MinUserId + ((37 * i + 11 * r) % (MaxUserId - MinUserId + 1)),
   username |-> Choice(usernames, i + r),
   issue |-> "Sample issue #" \o ToString(i + 1),
   summary |-> "This is a sample ticket summary for demonstration purposes #"
               \o ToString(i + 1),
   category |-> Choice(categories, 2 * i + r),
   priority |-> Choice(priorities, i + 2 * r),
   sentiment |-> Choice(sentiments, 2 * i + r + 1),
   status |-> Choice(statuses, i + r),
   created_at |-> now - ((7 * i + 3 * r) % (MaxDaysAgo + 1)) * TicksPerDay,
   resolution |-> NONE,
   assigned_to |-> NONE]

(* list.sort(key=created_at, reverse=True): stable, so tickets of equal    *)
(* created_at keep their relative order.                                   *)
RECURSIVE InsertDesc(_, _)
InsertDesc(s, t) ==
  IF s = <<>> THEN <<t>>
  ELSE IF Head(s).created_at >= t.created_at
       THEN <<Head(s)>> \o InsertDesc(Tail(s), t)
       ELSE <<t>> \o s

RECURSIVE SortDesc(_)
SortDesc(s) ==
  IF s = <<>> THEN <<>>
  ELSE InsertDesc(SortDesc(SubSeq(s, 1, Len(s) - 1)), s[Len(s)])

generate_mock_data(r, now) ==
  SortDesc([k \in 1 .. NumMockTickets |-> MockTicket(k - 1, r, now)])

----------------------------------------------------------------------------
(* The backend a call is served from.                                      *)
(*   "mock"   : SUPABASE_AVAILABLE is false, the list mock_tickets         *)
(*   "remote" : self.supabase exists, the remote table                     *)
(*   "none"   : SUPABASE_AVAILABLE is true but create_client failed, so    *)
(*              self.supabase does not exist and every use of it raises    *)
(*              AttributeError inside the operation's try block            *)

Backend ==
  IF ~SUPABASE_AVAILABLE THEN "mock"
  ELSE IF has_supabase THEN "remote" ELSE "none"

(* outcome of a call on self.supabase *)
RemoteOutcome(o) == IF has_supabase THEN o ELSE "raise"

(* the tickets of the remote table, ordered by created_at descending *)
RemoteOrdered == SortDesc(remote_tickets)

(* seq[:limit] *)
Slice(seq, limit) ==
  IF limit >= 0
  THEN SubSeq(seq, 1, IF limit < Len(seq) THEN limit ELSE Len(seq))
  ELSE SubSeq(seq, 1, IF Len(seq) + limit > 0 THEN Len(seq) + limit ELSE 0)

(* index of the first ticket of seq whose id is ticket_id, 0 when none *)
RECURSIVE FirstIndex(_, _, _)
FirstIndex(seq, ticket_id, i) ==
  IF i > Len(seq) THEN 0
  ELSE IF seq[i].id = ticket_id THEN i
  ELSE FirstIndex(seq, ticket_id, i + 1)

----------------------------------------------------------------------------
(* get_ticket: the ticket, or None.  o is the outcome of the remote call.  *)

(* get_ticket on the stores mock and remote *)
get_ticket_in(mock, remote, ticket_id, o) ==
  IF SUPABASE_AVAILABLE
  THEN IF RemoteOutcome(o) = "ok"
       THEN LET i == FirstIndex(remote, ticket_id, 1)
            IN IF i = 0 THEN NoTicket ELSE remote[i]
       ELSE NoTicket
  ELSE LET i == FirstIndex(mock, ticket_id, 1)
       IN IF i = 0 THEN NoTicket ELSE mock[i]

get_ticket(ticket_id, o) ==
  get_ticket_in(mock_tickets, remote_tickets, ticket_id, o)

(* get_all_tickets(status, limit).  The remote query rejects a negative    *)
(* limit, which the code turns into the empty list.                        *)
get_all_tickets(status, limit, o) ==
  IF SUPABASE_AVAILABLE
  THEN IF RemoteOutcome(o) = "ok" /\ limit >= 0
       THEN LET Match(t) == Truthy(status) => t.status = status
            IN Slice(SelectSeq(RemoteOrdered, Match), limit)
       ELSE <<>>
  ELSE LET Match(t) == Truthy(status) => t.status = status
       IN Slice(SelectSeq(mock_tickets, Match), limit)

----------------------------------------------------------------------------
(* create_ticket: the dict ticket_data.  now_id and now_created are the    *)
(* clock at the two datetime.now() calls.                                  *)

(* create_ticket_data with the summary taken from the issue text *)
create_ticket_data_summary_from_issue(args, now_id, now_created) ==
  [id |-> TicketId(now_id \div TicksPerSec),
   user_id |-> args.user_id,
   username |-> args.username,
   issue |-> args.issue,
   summary |-> args.issue,
   category |-> args.category,
   priority |-> args.priority,
   sentiment |-> args.sentiment,
   status |-> "open",
   created_at |-> now_created,
   resolution |-> NONE,
   assigned_to |-> NONE]

create_ticket_data(args, now_id, now_created) ==
  [id |-> TicketId(now_id \div TicksPerSec),
   user_id |-> args.user_id,
   username |-> args.username,
   issue |-> args.issue,
   summary |-> args.summary,
   category |-> args.category,
   priority |-> args.priority,
   sentiment |-> args.sentiment,
   status |-> "open",
   created_at |-> now_created,
   resolution |-> NONE,
   assigned_to |-> NONE]

(* insert_mock_tickets appending instead of inserting at the head *)
insert_mock_tickets_at_end(tickets, data) == Append(tickets, data)

(* insert_mock_tickets overwriting the head instead of inserting *)
insert_mock_tickets_over_head(tickets, data) ==
  IF tickets = <<>> THEN <<data>> ELSE <<data>> \o Tail(tickets)

(* self.mock_tickets.insert(0, ticket_data) *)
insert_mock_tickets(tickets, data) == <<data>> \o tickets

(* The effect of create_ticket(args): the two stores afterwards and the    *)
(* value returned (the id, or None).  The remote table is keyed by id: an  *)
(* insert of an id the table already holds raises, like any failed call.   *)
create_ticket_effect(args, now_id, now_created, o) ==
  LET data == create_ticket_data(args, now_id, now_created)
  IN IF SUPABASE_AVAILABLE
     THEN IF RemoteOutcome(o) = "ok"
             /\ FirstIndex(remote_tickets, data.id, 1) = 0
          THEN [mock |-> mock_tickets,
                remote |-> Append(remote_tickets, data),
                ret |-> "id", id |-> data.id]
          ELSE [mock |-> mock_tickets, remote |-> remote_tickets,
                ret |-> NONE, id |-> NoId]
     ELSE [mock |-> insert_mock_tickets(mock_tickets, data),
           remote |-> remote_tickets,
           ret |-> "id", id |-> data.id]

(* update_data without the `if resolution` test *)
update_data_always_resolution(status, resolution) ==
  [status |-> status, resolution |-> resolution]

(* update_ticket_status: the dict update_data *)
update_data(status, resolution) ==
  IF Truthy(resolution)
  THEN [status |-> status, resolution |-> resolution]
  ELSE [status |-> status]

(* dict_update that clears a resolution the update does not carry *)
dict_update_reset(t, upd) ==
  [k \in DOMAIN t |-> IF k \in DOMAIN upd THEN upd[k]
                      ELSE IF k = "resolution" THEN NONE ELSE t[k]]

(* dict.update *)
dict_update(t, upd) ==
  [k \in DOMAIN t |-> IF k \in DOMAIN upd THEN upd[k] ELSE t[k]]

(* update_mock_tickets writing the first ticket when no id matches *)
update_mock_tickets_or_first(tickets, ticket_id, upd) ==
  LET i == FirstIndex(tickets, ticket_id, 1)
  IN IF tickets = <<>> THEN tickets
     ELSE [tickets EXCEPT ![IF i = 0 THEN 1 ELSE i] = dict_update(@, upd)]

(* the loop over self.mock_tickets of update_ticket_status *)
update_mock_tickets(tickets, ticket_id, upd) ==
  LET i == FirstIndex(tickets, ticket_id, 1)
  IN IF i = 0 THEN tickets
     ELSE [tickets EXCEPT ![i] = dict_update(@, upd)]

(* table("tickets").update(update_data).eq("id", ticket_id) *)
update_remote_tickets(rows, ticket_id, upd) ==
  [i \in 1 .. Len(rows) |->
     IF rows[i].id = ticket_id THEN dict_update(rows[i], upd) ELSE rows[i]]

(* The effect of update_ticket_status(ticket_id, status, resolution): the  *)
(* two stores afterwards and the value returned.                           *)
update_ticket_status_in(mock, remote, ticket_id, status, resolution, o) ==
  LET upd == update_data(status, resolution)
  IN IF SUPABASE_AVAILABLE
     THEN IF RemoteOutcome(o) = "ok"
          THEN [mock |-> mock,
                remote |-> update_remote_tickets(remote, ticket_id, upd),
                ret |-> IF FirstIndex(remote, ticket_id, 1) # 0
                        THEN "True" ELSE "False"]
          ELSE [mock |-> mock, remote |-> remote, ret |-> "False"]
     ELSE [mock |-> update_mock_tickets(mock, ticket_id, upd),
           remote |-> remote,
           ret |-> IF FirstIndex(mock, ticket_id, 1) # 0
                   THEN "True" ELSE "False"]

(* update_ticket_status on the program's stores *)
update_ticket_status_effect(ticket_id, status, resolution, o) ==
  update_ticket_status_in(mock_tickets, remote_tickets, ticket_id, status,
                          resolution, o)

(* assign_ticket_args passing the initial status instead of the current *)
assign_ticket_args_reopen(t1, t2) ==
  [status |-> "open", resolution |-> t2.resolution]

(* assign_ticket: the status and resolution it passes on to               *)
(* update_ticket_status, read from the two get_ticket results.             *)
assign_ticket_args(t1, t2) ==
  [status |-> t1.status, resolution |-> t2.resolution]

(* The effect of assign_ticket(ticket_id, assigned_to) on the stores mock  *)
(* and remote: "raise" for the TypeError of subscripting None.             *)
assign_ticket_in(mock, remote, ticket_id, o1, o2, o3) ==
  LET t1 == get_ticket_in(mock, remote, ticket_id, o1)
      t2 == get_ticket_in(mock, remote, ticket_id, o2)
  IN IF t1 = NoTicket \/ t2 = NoTicket
     THEN [mock |-> mock, remote |-> remote, ret |-> "raise"]
     ELSE LET a == assign_ticket_args(t1, t2)
          IN update_ticket_status_in(mock, remote, ticket_id, a.status,
                                     a.resolution, o3)

(* count_statuses with "forwarded" tickets left out *)
RECURSIVE count_statuses_skip_forwarded(_, _, _)
count_statuses_skip_forwarded(stats, all_tickets, i) ==
  IF i > Len(all_tickets) THEN stats
  ELSE count_statuses_skip_forwarded(
         IF all_tickets[i].status \in (DOMAIN stats \ {"forwarded"})
         THEN [stats EXCEPT ![all_tickets[i].status] = @ + 1]
         ELSE stats,
         all_tickets, i + 1)

(* get_ticket_stats *)
RECURSIVE count_statuses(_, _, _)
count_statuses(stats, all_tickets, i) ==
  IF i > Len(all_tickets) THEN stats
  ELSE count_statuses(
         IF all_tickets[i].status \in DOMAIN stats
         THEN [stats EXCEPT ![all_tickets[i].status] = @ + 1]
         ELSE stats,
         all_tickets, i + 1)

get_ticket_stats(o) ==
  LET all_tickets == get_all_tickets(NONE, StatsLimit, o)
  IN count_statuses([total |-> Len(all_tickets), open |-> 0,
                     resolved |-> 0, forwarded |-> 0], all_tickets, 1)

(* get_category_distribution with the first ticket of a category not      *)
(* counted                                                                 *)
RECURSIVE count_categories_from_zero(_, _, _)
count_categories_from_zero(cats, all_tickets, i) ==
  IF i > Len(all_tickets) THEN cats
  ELSE LET category == all_tickets[i].category
       IN count_categories_from_zero(
            IF category \in DOMAIN cats
            THEN [cats EXCEPT ![category] = @ + 1]
            ELSE cats @@ (category :> 0),
            all_tickets, i + 1)

(* get_category_distribution: categories[category] =                      *)
(* categories.get(category, 0) + 1 over the tickets                        *)
RECURSIVE count_categories(_, _, _)
count_categories(cats, all_tickets, i) ==
  IF i > Len(all_tickets) THEN cats
  ELSE LET category == all_tickets[i].category
       IN count_categories(
            IF category \in DOMAIN cats
            THEN [cats EXCEPT ![category] = @ + 1]
            ELSE cats @@ (category :> 1),
            all_tickets, i + 1)

(* the empty dict *)
EmptyDict == [k \in {} |-> 0]

get_category_distribution(o) ==
  count_categories(EmptyDict, get_all_tickets(NONE, StatsLimit, o), 1)

----------------------------------------------------------------------------
(* Text *)

UpperCase == "ABCDEFGHIJKLMNOPQRSTUVWXYZ"
LowerCase == "abcdefghijklmnopqrstuvwxyz"

LowerChar(c) ==
  IF \E i \in 1 .. Len(UpperCase) : SubSeq(UpperCase, i, i) = c
  THEN LET i == CHOOSE j \in 1 .. Len(UpperCase) : SubSeq(UpperCase, j, j) = c
       IN SubSeq(LowerCase, i, i)
  ELSE c

(* str.lower() *)
RECURSIVE Lower(_)
Lower(str) ==
  IF str = "" THEN ""
  ELSE LowerChar(SubSeq(str, 1, 1)) \o Lower(SubSeq(str, 2, Len(str)))

(* needle in hay *)
Contains(hay, needle) ==
  \E i \in 1 .. (Len(hay) - Len(needle) + 1) :
    SubSeq(hay, i, i + Len(needle) - 1) = needle

(* the string f"TK-{n}" of an id *)
IdString(id) == id[1] \o "-" \o ToString(id[2])

(* search_tickets(search_term, limit) *)
search_tickets(search_term, limit, o) ==
  LET term == Lower(search_term)
      Match(t) == \/ Contains(Lower(t.issue), term)
                  \/ Contains(Lower(t.summary), term)
                  \/ Contains(Lower(IdString(t.id)), term)
  IN IF SUPABASE_AVAILABLE
     THEN IF RemoteOutcome(o) = "ok"
          THEN Slice(SelectSeq(RemoteOrdered, Match), limit)
          ELSE <<>>
     ELSE Slice(SelectSeq(mock_tickets, Match), limit)

(* get_tickets_by_date_range(start_date, end_date) *)
get_tickets_by_date_range(start, end, o) ==
  LET InRange(t) == start <= t.created_at /\ t.created_at <= end
  IN IF SUPABASE_AVAILABLE
     THEN IF RemoteOutcome(o) = "ok"
          THEN SelectSeq(RemoteOrdered, InRange)
          ELSE <<>>
     ELSE SelectSeq(mock_tickets, InRange)

----------------------------------------------------------------------------
(* dashboard.py *)

(* datetime.date() of a tick, as the number of the day *)
DateOf(tick) == tick \div TicksPerDay

(* get_ticket_volume_chart(timeframe_days): the (date, count) points of   *)
(* the figure, none for the "No Ticket Data" figure.  The points are the  *)
(* daily counts of the tickets of the range, reindexed on the dates from  *)
(* start_date.date() to end_date.date() with 0 for a date without count.  *)
get_ticket_volume_chart(timeframe_days, now, o) ==
  LET end_date == now
      start_date == now - timeframe_days * TicksPerDay
      tickets == get_tickets_by_date_range(start_date, end_date, o)
      first == DateOf(start_date)
      CountOn(d) == Len(SelectSeq(tickets, LAMBDA t : DateOf(t.created_at) = d))
  IN IF tickets = <<>> THEN <<>>
     ELSE [k \in 1 .. (DateOf(end_date) - first + 1) |->
             [date |-> first + k - 1, count |-> CountOn(first + k - 1)]]

(* get_filtered_tickets(status_filter, search_term): the raw tickets *)
get_filtered_tickets(status_filter, search_term, o) ==
  IF Truthy(search_term)
  THEN search_tickets(search_term, SearchLimit, o)
  ELSE IF Lower(status_filter) # "all"
       THEN get_all_tickets(status_filter, FilterLimit, o)
       ELSE get_all_tickets(NONE, FilterLimit, o)

----------------------------------------------------------------------------
(* State machine *)

(* The record of the last call.  For the handlers of the dashboard and of *)
(* the bot: action is the callback's action, events the calls the handler *)
(* made in order, updated the value its update_ticket_status call         *)
(* returned, notified the outcome of its notifier call, feedback the text *)
(* it showed and tickets the ticket list it returned.                     *)
NoCall == [op |-> "init", id |-> NoId, status |-> NONE, resolution |-> NONE,
           assigned_to |-> NONE, args |-> NoArgs, ret |-> NONE,
           outcomes |-> <<>>, action |-> NONE, events |-> <<>>,
           updated |-> NONE, notified |-> NONE, feedback |-> NONE,
           tickets |-> <<>>]

(* no assign_ticket call is in flight *)
Idle == [pc |-> "idle", id |-> NoId, assigned_to |-> NONE, status |-> NONE,
         resolution |-> NONE]

(* the outcomes the calls on the remote client can have *)
CallOutcomes ==
  IF ~SUPABASE_AVAILABLE THEN {"ok"}
  ELSE IF has_supabase THEN Outcomes ELSE {"raise"}

(* the outcomes of the six remote calls a handler can make: at most one  *)
(* of them fails                                                         *)
HandlerOutcomes ==
  IF ~SUPABASE_AVAILABLE THEN {[k \in 1 .. 6 |-> "ok"]}
  ELSE IF has_supabase
       THEN {[k \in 1 .. 6 |-> IF k = f THEN "raise" ELSE "ok"] : f \in 0 .. 6}
       ELSE {[k \in 1 .. 6 |-> "raise"]}

StoreTickets == IF SUPABASE_AVAILABLE THEN remote_tickets ELSE mock_tickets

(* ids to call with: one no ticket has, the first seeded one, and the id  *)
(* of the ticket at the head of the store                                 *)
IdInputs ==
  {UnknownId, TicketId(FirstMockId)} \cup
  {StoreTickets[i].id : i \in 1 .. (IF Len(StoreTickets) < 1
                                    THEN Len(StoreTickets) ELSE 1)}

(* the ticket selected in the dashboard or named by a callback: none,    *)
(* one no ticket has, or the ticket at the head of the store             *)
SelectedIds ==
  {UnknownId} \cup
  {StoreTickets[i].id : i \in 1 .. (IF Len(StoreTickets) < 1
                                    THEN Len(StoreTickets) ELSE 1)}

Init ==
  \E avail \in BOOLEAN, client \in BOOLEAN, r \in RandomSeeds :
    /\ SUPABASE_AVAILABLE = avail
    /\ has_supabase = (avail /\ client)
    /\ mock_tickets = IF avail /\ client THEN <<>>
                      ELSE generate_mock_data(r, StartClock)
    /\ remote_tickets = <<>>
    /\ clock = StartClock
    /\ last = NoCall
    /\ nops = 0
    /\ inflight = Idle

(* time passes between two operations *)
Tick ==
  /\ clock < StartClock + MaxTicks
  /\ clock' = clock + 1
  /\ UNCHANGED <<SUPABASE_AVAILABLE, has_supabase, mock_tickets,
                 remote_tickets, last, nops, inflight>>

create_ticket ==
  \E args \in ArgTuples, d \in Delays, o \in CallOutcomes :
    /\ nops < MaxOps
    /\ clock + d <= StartClock + MaxTicks
    /\ LET e == create_ticket_effect(args, clock, clock + d, o)
       IN /\ mock_tickets' = e.mock
          /\ remote_tickets' = e.remote
          /\ last' = [NoCall EXCEPT !.op = "create_ticket", !.args = args,
                                    !.id = e.id, !.ret = e.ret,
                                    !.outcomes = <<o>>]
    /\ clock' = clock + d
    /\ nops' = nops + 1
    /\ UNCHANGED <<SUPABASE_AVAILABLE, has_supabase, inflight>>

update_ticket_status ==
  \E ticket_id \in IdInputs, status \in StatusInputs,
     resolution \in ResolutionInputs, o \in CallOutcomes :
    /\ nops < MaxOps
    /\ LET e == update_ticket_status_effect(ticket_id, status, resolution, o)
       IN /\ mock_tickets' = e.mock
          /\ remote_tickets' = e.remote
          /\ last' = [NoCall EXCEPT !.op = "update_ticket_status",
                                    !.id = ticket_id, !.status = status,
                                    !.resolution = resolution, !.ret = e.ret,
                                    !.outcomes = <<o>>]
    /\ nops' = nops + 1
    /\ UNCHANGED <<SUPABASE_AVAILABLE, has_supabase, clock, inflight>>

(* assign_ticket: two get_ticket calls, whose results are subscripted      *)
(* outside any try block, then update_ticket_status.                       *)
assign_ticket ==
  \E ticket_id \in IdInputs, assigned_to \in AssigneeInputs,
     o1 \in CallOutcomes, o2 \in CallOutcomes, o3 \in CallOutcomes :
    /\ nops < MaxOps
    /\ LET t1 == get_ticket(ticket_id, o1)
           t2 == get_ticket(ticket_id, o2)
           raised == t1 = NoTicket \/ t2 = NoTicket
           e == IF raised
                THEN [mock |-> mock_tickets, remote |-> remote_tickets,
                      ret |-> "raise"]
                ELSE LET a == assign_ticket_args(t1, t2)
                     IN update_ticket_status_effect(ticket_id, a.status,
                                                    a.resolution, o3)
       IN /\ mock_tickets' = e.mock
          /\ remote_tickets' = e.remote
          /\ last' = [NoCall EXCEPT !.op = "assign_ticket",
                                    !.id = ticket_id,
                                    !.assigned_to = assigned_to,
                                    !.ret = e.ret,
                                    !.outcomes = <<o1, o2, o3>>]
    /\ nops' = nops + 1
    /\ UNCHANGED <<SUPABASE_AVAILABLE, has_supabase, clock, inflight>>

----------------------------------------------------------------------------
(* The handlers of the dashboard and of the bot *)

AutoResolution == "Auto-resolved by customer"

NoTicketSelected == "No ticket selected."
TicketNotFound == "Ticket not found."
UpdatedSuccessfully == "Ticket updated successfully!"

(* update_ticket_action up to its notifier call: the stores afterwards,   *)
(* the calls made, what update_ticket_status returned, whether the        *)
(* notifier is called and how the handler ends ("raise" for the TypeError *)
(* that escapes from assign_ticket).                                      *)
update_ticket_action_effect(ticket_id, new_status, resolution, assigned_to, o) ==
  LET unchanged == [mock |-> mock_tickets, remote |-> remote_tickets,
                    events |-> <<>>, updated |-> NONE, notify |-> FALSE,
                    feedback |-> NoTicketSelected]
  IN IF ticket_id = NoId THEN unchanged
     ELSE
       LET ticket == get_ticket(ticket_id, o[1])
       IN IF ticket = NoTicket
          THEN [unchanged EXCEPT !.events = <<"get_ticket">>,
                                 !.feedback = TicketNotFound]
          ELSE
            LET u == update_ticket_status_in(mock_tickets, remote_tickets,
                                             ticket_id, new_status,
                                             resolution, o[2])
                a == IF Truthy(assigned_to)
                     THEN assign_ticket_in(u.mock, u.remote, ticket_id,
                                           o[3], o[4], o[5])
                     ELSE [mock |-> u.mock, remote |-> u.remote, ret |-> NONE]
                calls == <<"get_ticket", "update_ticket_status">> \o
                         (IF Truthy(assigned_to) THEN <<"assign_ticket">>
                          ELSE <<>>)
                notify == /\ new_status = "resolved"
                          /\ Truthy(resolution)
                          /\ ticket.user_id # 0
            IN IF a.ret = "raise"
               THEN [mock |-> a.mock, remote |-> a.remote, events |-> calls,
                     updated |-> u.ret, notify |-> FALSE,
                     feedback |-> "raise"]
               ELSE [mock |-> a.mock, remote |-> a.remote,
                     events |-> calls \o
                                (IF notify THEN <<"notify_user">> ELSE <<>>)
                                \o <<"get_filtered_tickets">>,
                     updated |-> u.ret, notify |-> notify,
                     feedback |-> UpdatedSuccessfully]

(* dashboard.py, update_ticket_action.  n is the outcome of the request   *)
(* to the notifier: answered, connection refused or timed out; the two    *)
(* failures are RequestExceptions, which the handler catches.             *)
update_ticket_action ==
  \E ticket_id \in SelectedIds \cup {NoId}, new_status \in RadioStatuses,
     resolution \in NoteInputs, assigned_to \in AssignedToInputs,
     current_status_filter \in CurrentFilters,
     current_search \in CurrentSearches,
     o \in HandlerOutcomes :
   \E n \in IF new_status = "resolved" /\ Truthy(resolution)
            THEN NotifierOutcomes ELSE {"ok"} :
    /\ nops < MaxOps
    /\ LET e == update_ticket_action_effect(ticket_id, new_status,
                                            resolution, assigned_to, o)
       IN /\ mock_tickets' = e.mock
          /\ remote_tickets' = e.remote
          /\ UNCHANGED <<SUPABASE_AVAILABLE, has_supabase, clock, inflight>>
          /\ last' = [NoCall EXCEPT
                        !.op = "update_ticket_action",
                        !.id = ticket_id, !.status = new_status,
                        !.resolution = resolution,
                        !.assigned_to = assigned_to,
                        !.outcomes = o,
                        !.events = e.events,
                        !.updated = e.updated,
                        !.notified = IF e.notify THEN n ELSE NONE,
                        !.feedback = e.feedback,
                        !.ret = IF e.feedback = "raise" THEN "raise"
                                ELSE "return",
                        !.tickets =
                          IF e.feedback = UpdatedSuccessfully
                          THEN get_filtered_tickets(current_status_filter,
                                                    current_search, o[6])'
                          ELSE <<>>]
    /\ nops' = nops + 1

(* helphub1.py, handle_callback for the callback data action_ticket_id *)
handle_callback ==
  \E action \in CallbackActions, ticket_id \in SelectedIds,
     o \in HandlerOutcomes :
    /\ nops < MaxOps
    /\ LET ticket == get_ticket(ticket_id, o[1])
           status == IF action = "resolve" THEN "resolved"
                     ELSE IF action = "forward" THEN "forwarded" ELSE NONE
           resolution == IF action = "resolve" THEN AutoResolution ELSE NONE
           writes == ticket # NoTicket /\ action \in {"resolve", "forward"}
           e == IF writes
                THEN update_ticket_status_effect(ticket_id, status,
                                                 resolution, o[2])
                ELSE [mock |-> mock_tickets, remote |-> remote_tickets,
                      ret |-> NONE]
       IN /\ mock_tickets' = e.mock
          /\ remote_tickets' = e.remote
          /\ last' = [NoCall EXCEPT
                        !.op = "handle_callback", !.action = action,
                        !.outcomes = o,
                        !.id = ticket_id, !.status = status,
                        !.resolution = resolution,
                        !.events = IF writes
                                   THEN <<"get_ticket", "update_ticket_status">>
                                   ELSE <<"get_ticket">>,
                        !.updated = e.ret,
                        !.feedback = IF ticket = NoTicket THEN TicketNotFound
                                     ELSE action,
                        !.ret = "return"]
    /\ nops' = nops + 1
    /\ UNCHANGED <<SUPABASE_AVAILABLE, has_supabase, clock, inflight>>

----------------------------------------------------------------------------
(* assign_ticket of a second caller, step by step.  Its one statement     *)
(* evaluates the arguments from left to right: get_ticket for the status, *)
(* get_ticket for the resolution, then the update_ticket_status call.     *)
(* Other callers' operations can run between the steps.                   *)

(* the call ends with the exception of subscripting None *)
assign_ticket_raises(ticket_id, assigned_to, outs) ==
  /\ inflight' = Idle
  /\ last' = [NoCall EXCEPT !.op = "assign_ticket", !.id = ticket_id,
                            !.assigned_to = assigned_to, !.ret = "raise",
                            !.outcomes = outs]
  /\ UNCHANGED <<mock_tickets, remote_tickets>>

(* self.get_ticket(ticket_id)['status'] *)
assign_ticket_read_status ==
  \E ticket_id \in IdInputs, assigned_to \in AssigneeInputs,
     o \in CallOutcomes :
    /\ inflight.pc = "idle"
    /\ nops < MaxOps
    /\ LET t1 == get_ticket(ticket_id, o)
       IN IF t1 = NoTicket
          THEN assign_ticket_raises(ticket_id, assigned_to, <<o>>)
          ELSE /\ inflight' = [Idle EXCEPT !.pc = "read_status",
                                           !.id = ticket_id,
                                           !.assigned_to = assigned_to,
                                           !.status = t1.status]
               /\ UNCHANGED <<mock_tickets, remote_tickets, last>>
    /\ nops' = nops + 1
    /\ UNCHANGED <<SUPABASE_AVAILABLE, has_supabase, clock>>

(* self.get_ticket(ticket_id).get('resolution') *)
assign_ticket_read_resolution ==
  \E o \in CallOutcomes :
    /\ inflight.pc = "read_status"
    /\ LET t2 == get_ticket(inflight.id, o)
       IN IF t2 = NoTicket
          THEN assign_ticket_raises(inflight.id, inflight.assigned_to, <<o>>)
          ELSE /\ inflight' = [inflight EXCEPT !.pc = "read_resolution",
                                               !.resolution = t2.resolution]
               /\ UNCHANGED <<mock_tickets, remote_tickets, last>>
    /\ UNCHANGED <<SUPABASE_AVAILABLE, has_supabase, clock, nops>>

(* self.update_ticket_status(ticket_id, status, resolution=resolution)    *)
(* with the two values read before                                        *)
assign_ticket_write ==
  \E o \in CallOutcomes :
    /\ inflight.pc = "read_resolution"
    /\ LET e == update_ticket_status_effect(inflight.id, inflight.status,
                                            inflight.resolution, o)
       IN /\ mock_tickets' = e.mock
          /\ remote_tickets' = e.remote
          /\ last' = [NoCall EXCEPT !.op = "assign_ticket",
                                    !.id = inflight.id,
                                    !.assigned_to = inflight.assigned_to,
                                    !.ret = e.ret, !.outcomes = <<o>>]
    /\ inflight' = Idle
    /\ UNCHANGED <<SUPABASE_AVAILABLE, has_supabase, clock, nops>>

Next ==
  \/ Tick
  \/ create_ticket
  \/ update_ticket_status
  \/ assign_ticket

Spec == Init /\ [][Next]_vars

(* two callers on one store: one updates tickets, the other assigns *)
NextConcurrent ==
  \/ update_ticket_status
  \/ assign_ticket_read_status
  \/ assign_ticket_read_resolution
  \/ assign_ticket_write

SpecConcurrent == Init /\ [][NextConcurrent]_vars

(* the dashboard and the bot on one store *)
NextHandlers ==
  \/ create_ticket
  \/ update_ticket_action
  \/ handle_callback

SpecHandlers == Init /\ [][NextHandlers]_vars

----------------------------------------------------------------------------
(* Properties *)

Exists(ticket_id) == FirstIndex(StoreTickets, ticket_id, 1) # 0

(* the step is a call of the operation op *)
Called(op) == nops' = nops + 1 /\ last'.op = op

AllOk(outs) == \A k \in 1 .. Len(outs) : outs[k] = "ok"

(* the fields update_ticket_status never writes *)
FrameFields ==
  {"id", "user_id", "username", "issue", "summary", "category", "priority",
   "sentiment", "created_at", "assigned_to"}

(* C1: after any sequence of create_ticket calls, no two tickets of the    *)
(* in-process store have the same id.                                      *)
C1_UniqueIds ==
  \A i, j \in 1 .. Len(mock_tickets) :
    i # j => mock_tickets[i].id # mock_tickets[j].id

(* C2: when create_ticket returns an id, a get_ticket(id) that follows it  *)
(* returns a ticket whose user_id, username, issue, summary, category,     *)
(* priority and sentiment are the arguments, whose status is "open" and    *)
(* whose created_at is not later than the clock.                           *)
C2_CreateThenGet ==
  (last.op = "create_ticket" /\ last.ret = "id") =>
    LET t == get_ticket(last.id, "ok")
    IN /\ t # NoTicket
       /\ t.id = last.id
       /\ t.user_id = last.args.user_id
       /\ t.username = last.args.username
       /\ t.issue = last.args.issue
       /\ t.summary = last.args.summary
       /\ t.category = last.args.category
       /\ t.priority = last.args.priority
       /\ t.sentiment = last.args.sentiment
       /\ t.status = "open"
       /\ t.created_at <= clock

(* a create_ticket returned an id that an older ticket of the store has too *)
C2_Witness ==
  /\ last.op = "create_ticket"
  /\ last.ret = "id"
  /\ \E j \in 2 .. Len(mock_tickets) : mock_tickets[j].id = last.id

(* C3: update_ticket_status(id, s, note) on an existing id, the backend    *)
(* call succeeding, returns true; afterwards the ticket get_ticket(id)     *)
(* finds has status s, has resolution note when note is non-empty and its  *)
(* former resolution when none is passed; its other fields and all other   *)
(* tickets are unchanged.                                                  *)
C3_UpdateFrame ==
  [][ (Called("update_ticket_status") /\ AllOk(last'.outcomes)
       /\ Exists(last'.id))
      => LET i == FirstIndex(StoreTickets, last'.id, 1)
         IN /\ last'.ret = "True"
            /\ Len(StoreTickets') = Len(StoreTickets)
            /\ FirstIndex(StoreTickets', last'.id, 1) = i
            /\ StoreTickets'[i].status = last'.status
            /\ Truthy(last'.resolution)
                 => StoreTickets'[i].resolution = last'.resolution
            /\ ~Truthy(last'.resolution)
                 => StoreTickets'[i].resolution = StoreTickets[i].resolution
            /\ \A f \in FrameFields :
                 StoreTickets'[i][f] = StoreTickets[i][f]
            /\ \A j \in 1 .. Len(StoreTickets) :
                 j # i => StoreTickets'[j] = StoreTickets[j] ]_vars

(* an update without a note has acted on a ticket that has a resolution *)
C3_Witness ==
  /\ last.op = "update_ticket_status"
  /\ last.ret = "True"
  /\ ~Truthy(last.resolution)
  /\ get_ticket(last.id, "ok").resolution = "note"
  /\ get_ticket(last.id, "ok").status = "open"

(* C4: after assign_ticket(id, assigned_to) on an existing ticket,         *)
(* get_ticket(id) has assigned_to equal to the argument.                   *)
C4_AssignSets ==
  (last.op = "assign_ticket" /\ AllOk(last.outcomes) /\ Exists(last.id)) =>
    get_ticket(last.id, "ok").assigned_to = last.assigned_to

(* C5: assign_ticket with an id that is not in the store returns false     *)
(* and raises nothing.                                                     *)
C5_AssignUnknown ==
  (last.op = "assign_ticket" /\ AllOk(last.outcomes) /\ ~Exists(last.id)) =>
    last.ret = "False"

(* C6: when the client is not configured or fails to initialise, the      *)
(* store serves from the in-process list of 30 seeded tickets:            *)
(* get_all_tickets returns the seeded tickets, create_ticket returns an   *)
(* id, get_ticket finds a seeded ticket and update_ticket_status on a     *)
(* seeded ticket returns true.                                            *)
C6_FallbackServes ==
  ~has_supabase =>
    /\ Len(mock_tickets) >= NumMockTickets
    /\ get_all_tickets(NONE, StatsLimit, "ok") = mock_tickets
    /\ get_ticket(TicketId(FirstMockId), "ok") # NoTicket
    /\ last.op = "create_ticket" => last.ret = "id"
    /\ (last.op = "update_ticket_status" /\ last.id = TicketId(FirstMockId))
         => last.ret = "True"

(* C7: get_ticket_stats().total is the number of tickets in the store,    *)
(* whatever status strings update_ticket_status was given, and a ticket   *)
(* whose status is not open, resolved or forwarded is counted in no other *)
(* counter.                                                               *)
C7_StatsTotal ==
  Backend = "mock" =>
    LET stats == get_ticket_stats("ok")
        Count(st) == Len(SelectSeq(mock_tickets, LAMBDA t : t.status = st))
    IN /\ stats.total = Len(mock_tickets)
       /\ stats.open = Count("open")
       /\ stats.resolved = Count("resolved")
       /\ stats.forwarded = Count("forwarded")

(* C8: assign_ticket on an existing ticket leaves the status and the      *)
(* resolution of that ticket, and of every ticket, as they were.          *)
C8_AssignFrame ==
  [][ (Called("assign_ticket") /\ Exists(last'.id))
      => /\ Len(StoreTickets') = Len(StoreTickets)
         /\ \A i \in 1 .. Len(StoreTickets) :
              /\ StoreTickets'[i].status = StoreTickets[i].status
              /\ StoreTickets'[i].resolution = StoreTickets[i].resolution
    ]_vars

(* assign_ticket has written a ticket that is resolved with a note *)
C8_Witness ==
  /\ last.op = "assign_ticket"
  /\ last.ret = "True"
  /\ get_ticket(last.id, "ok").status = "resolved"
  /\ get_ticket(last.id, "ok").resolution = "note"

(* C9: update_ticket_status with an id that is not in the store returns   *)
(* false and leaves every ticket unchanged.                               *)
C9_UpdateUnknown ==
  [][ (Called("update_ticket_status") /\ ~Exists(last'.id))
      => /\ last'.ret = "False"
         /\ UNCHANGED <<mock_tickets, remote_tickets>> ]_vars

(* update_ticket_status was called with an unknown id on a store that     *)
(* holds tickets                                                          *)
C9_Witness ==
  /\ last.op = "update_ticket_status"
  /\ last.id = UnknownId
  /\ Truthy(last.resolution)
  /\ Backend = "mock"
  /\ Len(mock_tickets) > NumMockTickets

(* C10: on the in-process store get_all_tickets(status, limit), limit >= 0,*)
(* returns at most limit tickets, only tickets of the requested status    *)
(* when a status is given, every stored ticket that matches when fewer    *)
(* than limit match, and orders them newest first by created_at.          *)
C10_ListContract ==
  Backend = "mock" =>
    \A status \in StatusFilters, limit \in Limits \cup {DefaultLimit} :
      LET res == get_all_tickets(status, limit, "ok")
          Match(t) == Truthy(status) => t.status = status
          matching == SelectSeq(mock_tickets, Match)
      IN /\ limit >= 0 => Len(res) <= limit
         /\ Truthy(status) =>
              \A k \in 1 .. Len(res) : res[k].status = status
         /\ \A k \in 1 .. Len(res) :
              \E j \in 1 .. Len(mock_tickets) : mock_tickets[j] = res[k]
         /\ (limit >= 0 /\ Len(matching) < limit) => res = matching
         /\ \A k \in 1 .. (Len(res) - 1) :
              res[k].created_at >= res[k + 1].created_at

(* a ticket was created and another moved to a status of its own, so a    *)
(* filter matches fewer tickets than the limit and the list is truncated  *)
(* without a filter                                                       *)
C10_Witness ==
  /\ Backend = "mock"
  /\ Len(mock_tickets) > NumMockTickets
  /\ last.op = "update_ticket_status"
  /\ last.ret = "True"
  /\ last.status = "closed"
  /\ Len(get_all_tickets("closed", MaxLimit, "ok")) = 1
  /\ Len(get_all_tickets(NONE, MaxLimit, "ok")) = MaxLimit

(* C11: no operation lets an exception escape when a backend call fails:  *)
(* create_ticket then returns None, update_ticket_status and              *)
(* assign_ticket return false, get_ticket returns None, get_all_tickets   *)
(* the empty list and get_ticket_stats all-zero counters.                 *)
C11_NoEscape ==
  /\ (last.op \in {"create_ticket", "update_ticket_status", "assign_ticket"}
      /\ ~AllOk(last.outcomes))
       => /\ last.ret # "raise"
          /\ last.op = "create_ticket" => last.ret = NONE
          /\ last.op # "create_ticket" => last.ret = "False"
  /\ SUPABASE_AVAILABLE =>
       /\ get_ticket(TicketId(FirstMockId), "raise") = NoTicket
       /\ get_all_tickets(NONE, DefaultLimit, "raise") = <<>>
       /\ get_ticket_stats("raise")
            = [total |-> 0, open |-> 0, resolved |-> 0, forwarded |-> 0]

(* C12: no step removes a ticket from the store or changes the id or the  *)
(* created_at of a stored ticket: the tickets of before are the last      *)
(* tickets of the in-process list and the first rows of the remote table  *)
(* afterwards, with their id and created_at.                              *)
C12_NeverDeleted ==
  [][ LET k == Len(mock_tickets') - Len(mock_tickets)
      IN /\ k >= 0
         /\ \A i \in 1 .. Len(mock_tickets) :
              /\ mock_tickets'[i + k].id = mock_tickets[i].id
              /\ mock_tickets'[i + k].created_at = mock_tickets[i].created_at
         /\ Len(remote_tickets') >= Len(remote_tickets)
         /\ \A i \in 1 .. Len(remote_tickets) :
              /\ remote_tickets'[i].id = remote_tickets[i].id
              /\ remote_tickets'[i].created_at = remote_tickets[i].created_at
    ]_vars

(* a ticket was created on the seeded store and then a ticket was updated *)
C12_Witness ==
  /\ Backend = "mock"
  /\ Len(mock_tickets) = NumMockTickets + 1
  /\ last.op \in {"update_ticket_status", "assign_ticket"}
  /\ last.ret = "True"

RecognizedStatuses == {"open", "resolved", "forwarded"}

AllRecognized ==
  \A i \in 1 .. Len(StoreTickets) :
    StoreTickets[i].status \in RecognizedStatuses

(* C14: whenever every stored ticket has a status in open, resolved,      *)
(* forwarded, get_ticket_stats() has total = open + resolved + forwarded. *)
C14_StatsSum ==
  AllRecognized =>
    \A o \in Outcomes :
      LET stats == get_ticket_stats(o)
      IN stats.total = stats.open + stats.resolved + stats.forwarded

(* a ticket was created and a ticket's status was changed, all statuses   *)
(* being recognised, on a store that holds tickets of all three           *)
C14_Witness ==
  /\ AllRecognized
  /\ Len(StoreTickets) > NumMockTickets
  /\ last.op = "update_ticket_status"
  /\ last.ret = "True"
  /\ get_ticket_stats("ok").forwarded > 0
  /\ get_ticket_stats("ok").resolved > 0
  /\ get_ticket_stats("ok").total = Len(StoreTickets)

(* C15: get_category_distribution() maps each category to the number of  *)
(* stored tickets of that category, holds no category without a ticket,   *)
(* its counts sum to the number of stored tickets, and it is the empty    *)
(* mapping when the store is empty.                                       *)
RECURSIVE SumOver(_, _)
SumOver(f, S) ==
  IF S = {} THEN 0
  ELSE LET x == CHOOSE y \in S : TRUE IN f[x] + SumOver(f, S \ {x})

C15_WitnessEmpty ==
  /\ Backend = "remote"
  /\ remote_tickets = <<>>
  /\ get_category_distribution("ok") = EmptyDict

(* C16: for every days >= 0 and every store content the ticket-volume     *)
(* view has exactly days + 1 entries, one for each calendar day from      *)
(* today - days to today, each with the number of tickets of the window   *)
(* created on that day.                                                   *)
C16_VolumeEntries ==
  Backend = "mock" =>
    \A days \in DaysInputs :
      LET view == get_ticket_volume_chart(days, clock, "ok")
          window == get_tickets_by_date_range(clock - days * TicksPerDay,
                                              clock, "ok")
      IN /\ Len(view) = days + 1
         /\ \A k \in 1 .. Len(view) :
              /\ view[k].date = DateOf(clock) - days + k - 1
              /\ view[k].count >= 0
              /\ view[k].count =
                   Len(SelectSeq(window,
                         LAMBDA t : DateOf(t.created_at) = view[k].date))

(* C20: for every status filter among open, resolved, forwarded and every *)
(* search term, every ticket get_filtered_tickets returns has the         *)
(* selected status.                                                       *)
C20_FilterHonoured ==
  \A status_filter \in DashboardFilters \cap RecognizedStatuses,
     search_term \in SearchTerms :
    LET tickets == get_filtered_tickets(status_filter, search_term, "ok")
    IN \A k \in 1 .. Len(tickets) : tickets[k].status = status_filter

(* the stored ticket of an id, NoTicket when there is none *)
StoredIn(tickets, ticket_id) ==
  LET i == FirstIndex(tickets, ticket_id, 1)
  IN IF i = 0 THEN NoTicket ELSE tickets[i]

Stored(ticket_id) == StoredIn(StoreTickets, ticket_id)

(* the position of the first event named e in a handler's calls, 0 when   *)
(* the handler did not make it                                            *)
EventIndex(events, e) ==
  IF \E k \in 1 .. Len(events) : events[k] = e
  THEN CHOOSE k \in 1 .. Len(events) :
         events[k] = e /\ \A j \in 1 .. (k - 1) : events[j] # e
  ELSE 0

(* C13: in the dashboard's update action, a resolve with a non-empty      *)
(* resolution note on a ticket with a known user_id, whose status update  *)
(* has been applied, makes exactly one notifier call, after the update;   *)
(* whatever the outcome of that call, the stored ticket keeps the status  *)
(* and the resolution the update wrote and the action returns its         *)
(* refreshed ticket list.                                                 *)
C13_NotifyAfterUpdate ==
  [][ (/\ Called("update_ticket_action")
       /\ last'.status = "resolved"
       /\ Truthy(last'.resolution)
       /\ last'.updated = "True"
       /\ Stored(last'.id).user_id # 0)
      => /\ last'.notified \in NotifierOutcomes
         /\ Len(SelectSeq(last'.events, LAMBDA e : e = "notify_user")) = 1
         /\ EventIndex(last'.events, "notify_user")
              > EventIndex(last'.events, "update_ticket_status")
         /\ StoredIn(StoreTickets', last'.id).status = "resolved"
         /\ StoredIn(StoreTickets', last'.id).resolution = last'.resolution
         /\ last'.ret = "return"
         /\ EventIndex(last'.events, "get_filtered_tickets")
              = Len(last'.events)
         /\ \E f \in CurrentFilters, t \in CurrentSearches, o \in Outcomes :
              /\ o = last'.outcomes[6]
              /\ last'.tickets = get_filtered_tickets(f, t, o)'
    ]_vars

(* C18: the dashboard's update action sends the notification and reports  *)
(* "Ticket updated successfully" only when its update_ticket_status call  *)
(* returned true; when that call returns false, no notification is sent   *)
(* and success is not reported.                                           *)
C18_OnlyOnSuccess ==
  [][ (Called("update_ticket_action") /\ last'.updated = "False")
      => /\ last'.notified = NONE
         /\ last'.feedback # UpdatedSuccessfully
    ]_vars

(* C19: no step changes the resolution of a stored ticket, except a call  *)
(* on that ticket's id that passes a non-empty resolution, which becomes  *)
(* the stored one; so an update with an absent or empty resolution (the   *)
(* bot's forward, a dashboard update with an empty note) leaves the       *)
(* resolution as it was, whatever the status.                             *)
C19_ResolutionKept ==
  [][ LET k == Len(mock_tickets') - Len(mock_tickets)
          Kept(old, new) ==
            \/ new.resolution = old.resolution
            \/ /\ Truthy(last'.resolution)
               /\ last'.id = old.id
               /\ new.resolution = last'.resolution
      IN /\ \A i \in 1 .. Len(mock_tickets) :
              Kept(mock_tickets[i], mock_tickets'[i + k])
         /\ \A i \in 1 .. Len(remote_tickets) :
              Kept(remote_tickets[i], remote_tickets'[i])
    ]_vars

(* a ticket's resolution had been set and a later update of that ticket   *)
(* without a resolution was applied: the bot forwarded it, or the         *)
(* dashboard reopened it with an empty note                               *)
C19_Witness ==
  /\ \/ last.op = "handle_callback" /\ last.action = "forward"
     \/ last.op = "update_ticket_action" /\ last.status = "open"
  /\ ~Truthy(last.resolution)
  /\ last.updated = "True"
  /\ Stored(last.id).status = last.status
  /\ Truthy(Stored(last.id).resolution)

(* C17: under any interleaving of callers on one ticket, a ticket's       *)
(* status changes only to the value an update_ticket_status call of a     *)
(* caller passed: the write of an assign_ticket call leaves every         *)
(* ticket's status as it is, so a status written by another caller        *)
(* between assign_ticket's reads and its write is still there when both   *)
(* calls have completed.                                                  *)
C17_AssignKeepsStatus ==
  [][ (inflight.pc = "read_resolution" /\ inflight'.pc = "idle")
      => \A i \in 1 .. Len(StoreTickets) :
           StoreTickets'[i].status = StoreTickets[i].status
    ]_vars

====
